---- MODULE Spec2Model ----
(***************************************************************************)
(* preprocess_dem.py: one run of main().  A run opens the source raster,   *)
(* reads band 1 at the requested shape (ny rows, nx columns), converts it  *)
(* to float32, builds the two coordinate axes with numpy.linspace,         *)
(* replaces the cells numpy.isclose finds close to the effective nodata    *)
(* value by None, assembles the output document and dumps it as JSON.      *)
(*                                                                         *)
(* Numbers.  Samples are integers (every one exactly a float64), the       *)
(* float NaN, or Python's None; each is a record with a tag, so that a     *)
(* NaN never meets an integer in a comparison.  Axis values are exact      *)
(* rationals <<numerator, denominator>> in lowest terms: the rounding of   *)
(* float64 arithmetic inside linspace is not modelled.                     *)
(*                                                                         *)
(* The resampling kernel.  src.read(..., resampling=Resampling.bilinear)   *)
(* is rasterio's; the script fixes only the shape of what it returns.  At  *)
(* the raster's own shape the read returns the band.  At any other shape   *)
(* the result is an array of the requested shape whose cells are whatever  *)
(* the library computes: the variable oracle holds that answer, drawn in   *)
(* Init, so every statement about such an array holds for any kernel.      *)
(***************************************************************************)
EXTENDS Integers, Sequences, FiniteSets

VARIABLES
    nx, ny, nodataArg,              \* args.nx, args.ny, args.nodata
    width, height, band,            \* the source raster: its shape, band 1
    bounds, srcNodata, crs,         \* src.bounds, src.nodata, src.crs
    oracle,                         \* the library's answer for a resampled read
    pc, err, steps,                 \* next statement, the exception, statements run
    band1, warned, lons, lats, nodata, elev, out,
    dest                            \* the file at out_path

vars == <<nx, ny, nodataArg, width, height, band, bounds, srcNodata, crs, oracle,
          pc, err, steps, band1, warned, lons, lats, nodata, elev, out, dest>>

(***************************************************************************)
(* Bounds of the model.                                                    *)
(***************************************************************************)
MaxDim == 3
MaxSrc == 2
Period == 2

(***************************************************************************)
(* Values.                                                                 *)
(***************************************************************************)
Num(v) == [t |-> "num", v |-> v]
NaN == [t |-> "nan", v |-> 0]
None == [t |-> "none", v |-> 0]

Abs(x) == IF x < 0 THEN -x ELSE x

\* float32 has a 24-bit significand: integers up to 2^24 are exact.
F32Significand == 16777216

RECURSIVE F32Ulp(_, _)
F32Ulp(a, u) == IF a \div u < F32Significand THEN u ELSE F32Ulp(a, 2 * u)

\* The integer nearest to v that float32 holds, ties to the even significand.
RoundF32(v) ==
    LET a == Abs(v)
        u == F32Ulp(a, 1)
        q == a \div u
        r == a % u
        m == IF 2 * r < u THEN q
             ELSE IF 2 * r > u THEN q + 1
             ELSE IF q % 2 = 0 THEN q ELSE q + 1
    IN  IF v < 0 THEN -(m * u) ELSE m * u

\* ndarray.astype(np.float32) on one sample.
AsF32(x) == IF x.t = "num" THEN Num(RoundF32(x.v)) ELSE x

MapF32(a) == [i \in 1..Len(a) |-> [j \in 1..Len(a[i]) |-> AsF32(a[i][j])]]

\* numpy.isclose's default rtol is 1e-5, its default atol 1e-8.
RtolInv == 100000

\* numpy.isclose(a, b): |a - b| <= atol + rtol * |b|, and False as soon as
\* either is NaN (equal_nan=False).  Between two integers atol (less than one
\* unit) decides nothing, so the test is RtolInv * |a - b| <= |b|.
IsClose(a, b) ==
    /\ a.t = "num"
    /\ b.t = "num"
    /\ Abs(a.v - b.v) <= Abs(b.v) \div RtolInv

(***************************************************************************)
(* Exact rationals for the axes.                                           *)
(***************************************************************************)
RECURSIVE GCD(_, _)
GCD(a, b) == IF b = 0 THEN a ELSE GCD(b, a % b)

Rat(n, d) ==
    LET g == GCD(Abs(n), Abs(d))
        s == IF d < 0 THEN -1 ELSE 1
    IN  <<(s * n) \div g, (s * d) \div g>>

RatLess(a, b) == a[1] * b[2] < b[1] * a[2]
RatSub(a, b) == Rat(a[1] * b[2] - b[1] * a[2], a[2] * b[2])

LinspaceNoEndpoint(start, stop, num) ==
    [k \in 1..num |-> Rat(start * num + (k - 1) * (stop - start), num)]

\* numpy.linspace(start, stop, num): step = (stop - start) / (num - 1),
\* y[k] = start + k * step, and y[num - 1] = stop when num > 1; [start] when
\* num = 1 and [] when num = 0.
Linspace(start, stop, num) ==
    [k \in 1..num |->
        IF num > 1 /\ k = num THEN Rat(stop, 1)
        ELSE IF num = 1 THEN Rat(start, 1)
        ELSE Rat(start * (num - 1) + (k - 1) * (stop - start), num - 1)]

(***************************************************************************)
(* The read.                                                               *)
(***************************************************************************)
\* A rows x cols array filled row by row from a palette, cyclically.
Fill(rows, cols, pal) ==
    [i \in 1..rows |-> [j \in 1..cols |->
        pal[(((i - 1) * cols + (j - 1)) % Len(pal)) + 1]]]

ResampleNative(b, rows, cols, orc) == b

\* src.read(1, out_shape=(1, rows, cols), resampling=Resampling.bilinear).
Resample(b, rows, cols, orc) ==
    IF rows = Len(b) /\ cols = Len(b[1]) THEN b ELSE Fill(rows, cols, orc)

(***************************************************************************)
(* Nodata.                                                                 *)
(***************************************************************************)
EffectiveNodataSourceFirst(arg, embedded) == IF embedded = None THEN arg ELSE embedded

\* Lines 55-58: the override when given, else the raster's own value.
EffectiveNodata(arg, embedded) == IF arg = None THEN embedded ELSE arg

\* Lines 59-66: band1.tolist(), then None for every cell close to nodata.
ReplaceNodata(a, nd) ==
    IF nd = None THEN a
    ELSE [i \in 1..Len(a) |-> [j \in 1..Len(a[i]) |->
            IF IsClose(a[i][j], nd) THEN None ELSE a[i][j]]]

(***************************************************************************)
(* The CRS advisory.                                                       *)
(***************************************************************************)
StandardCrs == "EPSG:4326"
NoCrs == "none"

WarnsCrsUnguarded(c) == c # StandardCrs

\* Line 48: src.crs and src.crs.to_string() != 'EPSG:4326'.
WarnsCrs(c) == c # NoCrs /\ c # StandardCrs

(***************************************************************************)
(* Control flow of main(), one label per statement.                        *)
(***************************************************************************)
NextLabelDestFirst(p) ==
    CASE p = "open" -> "read"
      [] p = "read" -> "bounds"
      [] p = "bounds" -> "axes"
      [] p = "axes" -> "nodata"
      [] p = "nodata" -> "open_dest"
      [] p = "open_dest" -> "elev"
      [] p = "elev" -> "assemble"
      [] p = "assemble" -> "dump"
      [] p = "dump" -> "wrote"
      [] p = "wrote" -> "done"

NextLabel(p) ==
    CASE p = "open" -> "read"
      [] p = "read" -> "bounds"
      [] p = "bounds" -> "axes"
      [] p = "axes" -> "nodata"
      [] p = "nodata" -> "elev"
      [] p = "elev" -> "assemble"
      [] p = "assemble" -> "open_dest"
      [] p = "open_dest" -> "dump"
      [] p = "dump" -> "wrote"
      [] p = "wrote" -> "done"

NoDoc == [bbox |-> <<>>, ncols |-> 0, nrows |-> 0, lons |-> <<>>, lats |-> <<>>,
          elev |-> <<>>]

Raise(e) ==
    /\ pc' = "failed"
    /\ err' = e
    /\ steps' = steps \cup {pc}

Advance ==
    /\ pc' = NextLabel(pc)
    /\ steps' = steps \cup {pc}
    /\ err' = err

(***************************************************************************)
(* The statements of main().                                               *)
(***************************************************************************)
\* Line 33: rasterio.open(src_path), which raises on an unreadable source.
Open ==
    /\ pc = "open"
    /\ \/ Advance
       \/ Raise("SourceUnreadable")
    /\ UNCHANGED <<nx, ny, nodataArg, width, height, band, bounds, srcNodata, crs,
                   oracle, band1, warned, lons, lats, nodata, elev, out, dest>>

\* Lines 37-41: no test of nx or ny comes first.  A negative size makes the
\* allocation of the output array raise ValueError; a zero size either makes
\* the library raise or yields an empty array.
Read ==
    /\ pc = "read"
    /\ \/ /\ nx >= 0
          /\ ny >= 0
          /\ band1' = MapF32(Resample(band, ny, nx, oracle))
          /\ Advance
       \/ /\ (nx < 0 \/ ny < 0)
          /\ band1' = band1
          /\ Raise("ValueError")
       \/ /\ nx >= 0
          /\ ny >= 0
          /\ (nx = 0 \/ ny = 0)
          /\ band1' = band1
          /\ Raise("RasterioIOError")
    /\ UNCHANGED <<nx, ny, nodataArg, width, height, band, bounds, srcNodata, crs,
                   oracle, warned, lons, lats, nodata, elev, out, dest>>

\* Lines 44-49: unpack src.bounds, print the advisory; nothing here raises.
CheckCrs ==
    /\ pc = "bounds"
    /\ warned' = WarnsCrs(crs)
    /\ Advance
    /\ UNCHANGED <<nx, ny, nodataArg, width, height, band, bounds, srcNodata, crs,
                   oracle, band1, lons, lats, nodata, elev, out, dest>>

\* Lines 52-53: lons from left to right, lats from top to bottom.
Axes ==
    /\ pc = "axes"
    /\ lons' = Linspace(bounds.left, bounds.right, nx)
    /\ lats' = Linspace(bounds.top, bounds.bottom, ny)
    /\ Advance
    /\ UNCHANGED <<nx, ny, nodataArg, width, height, band, bounds, srcNodata, crs,
                   oracle, band1, warned, nodata, elev, out, dest>>

\* Lines 55-58.
SelectNodata ==
    /\ pc = "nodata"
    /\ nodata' = EffectiveNodata(nodataArg, srcNodata)
    /\ Advance
    /\ UNCHANGED <<nx, ny, nodataArg, width, height, band, bounds, srcNodata, crs,
                   oracle, band1, warned, lons, lats, elev, out, dest>>

\* Lines 59-66: elev is a fresh list of lists; band1 itself is not changed.
Substitute ==
    /\ pc = "elev"
    /\ elev' = ReplaceNodata(band1, nodata)
    /\ Advance
    /\ UNCHANGED <<nx, ny, nodataArg, width, height, band, bounds, srcNodata, crs,
                   oracle, band1, warned, lons, lats, nodata, out, dest>>

\* Lines 68-75.
Assemble ==
    /\ pc = "assemble"
    /\ out' = [bbox |-> <<bounds.left, bounds.bottom, bounds.right, bounds.top>>,
               ncols |-> nx, nrows |-> ny, lons |-> lons, lats |-> lats,
               elev |-> elev]
    /\ Advance
    /\ UNCHANGED <<nx, ny, nodataArg, width, height, band, bounds, srcNodata, crs,
                   oracle, band1, warned, lons, lats, nodata, elev, dest>>

\* Line 77: open(out_path, 'w') truncates the file, or raises.
OpenDest ==
    /\ pc = "open_dest"
    /\ \/ /\ dest' = [state |-> "truncated", doc |-> NoDoc]
          /\ Advance
       \/ /\ dest' = dest
          /\ Raise("DestinationUnwritable")
    /\ UNCHANGED <<nx, ny, nodataArg, width, height, band, bounds, srcNodata, crs,
                   oracle, band1, warned, lons, lats, nodata, elev, out>>

\* Line 78: json.dump streams the document; a write error leaves a part of it.
Dump ==
    /\ pc = "dump"
    /\ \/ /\ dest' = [state |-> "complete", doc |-> out]
          /\ Advance
       \/ /\ dest' = [state |-> "partial", doc |-> NoDoc]
          /\ Raise("DestinationUnwritable")
    /\ UNCHANGED <<nx, ny, nodataArg, width, height, band, bounds, srcNodata, crs,
                   oracle, band1, warned, lons, lats, nodata, elev, out>>

\* Line 79: print("Wrote", out_path), and the with blocks close.
Wrote ==
    /\ pc = "wrote"
    /\ Advance
    /\ UNCHANGED <<nx, ny, nodataArg, width, height, band, bounds, srcNodata, crs,
                   oracle, band1, warned, lons, lats, nodata, elev, out, dest>>

Next ==
    \/ Open
    \/ Read
    \/ CheckCrs
    \/ Axes
    \/ SelectNodata
    \/ Substitute
    \/ Assemble
    \/ OpenDest
    \/ Dump
    \/ Wrote

(***************************************************************************)
(* Inputs.  Three families of runs: every requested shape with every CRS   *)
(* label; every small raster with every nodata pair; every requested shape *)
(* with every bounding box.                                                *)
(***************************************************************************)
Dims == (-1)..MaxDim
CrsLabels == {NoCrs, StandardCrs, "EPSG:32643"}
SrcVals == {Num(10), Num(-9999), Num(-999990), Num(16777217), NaN}
NodataVals == {Num(-9999), Num(-999999), NaN}
BoundVals == {-1, 0, 2}
Palettes == [1..Period -> SrcVals]
ConstPalette(v) == [k \in 1..Period |-> v]

\* The spec's scenario raster and box.
BaseBand == <<<<Num(10), Num(20)>>, <<Num(30), Num(40)>>>>
UnitBox == [left |-> 0, bottom |-> 0, right |-> 1, top |-> 1]

Start ==
    /\ pc = "open"
    /\ err = "none"
    /\ steps = {}
    /\ band1 = <<>>
    /\ warned = FALSE
    /\ lons = <<>>
    /\ lats = <<>>
    /\ nodata = None
    /\ elev = <<>>
    /\ out = NoDoc
    /\ dest = [state |-> "untouched", doc |-> NoDoc]

InitShapes ==
    /\ nx \in Dims
    /\ ny \in Dims
    /\ band = BaseBand
    /\ height = 2
    /\ width = 2
    /\ bounds = UnitBox
    /\ nodataArg = None
    /\ srcNodata \in {None, Num(10)}
    /\ crs \in CrsLabels
    /\ oracle \in {ConstPalette(Num(10)), ConstPalette(Num(25))}

InitNodata ==
    /\ nx \in 1..MaxSrc
    /\ ny \in 1..MaxSrc
    /\ height \in 1..MaxSrc
    /\ width \in 1..MaxSrc
    /\ \E pal \in Palettes :
          /\ band = Fill(height, width, pal)
          /\ oracle = pal
    /\ bounds = UnitBox
    /\ nodataArg \in {None} \cup NodataVals
    /\ srcNodata \in {None, Num(-9999), NaN}
    /\ crs = StandardCrs

InitBoxes ==
    /\ nx \in Dims
    /\ ny \in Dims
    /\ band = BaseBand
    /\ height = 2
    /\ width = 2
    /\ bounds \in [left : BoundVals, bottom : BoundVals, right : BoundVals,
                   top : BoundVals]
    /\ nodataArg = None
    /\ srcNodata \in {None, Num(10)}
    /\ crs = StandardCrs
    /\ oracle = ConstPalette(Num(10))

Init == Start /\ (InitShapes \/ InitNodata \/ InitBoxes)

Spec == Init /\ [][Next]_vars

(***************************************************************************)
(* Properties.                                                             *)
(***************************************************************************)
\* The index pairs of a list of lists.
Cells(a) == UNION {{<<i, j>> : j \in 1..Len(a[i])} : i \in 1..Len(a)}

\* The sample is the sentinel itself (for NaN: the same bit pattern).
IsSentinel(x, nd) == x = nd

\* C1: once the substitution has run with an effective nodata value, no cell
\* of elev (and none of the document's elev) is the nodata sentinel or within
\* numpy.isclose's tolerance of it.
C1_NoSentinelInElev ==
    /\ ("elev" \in steps /\ nodata # None) =>
          \A c \in Cells(elev) :
             /\ ~IsSentinel(elev[c[1]][c[2]], nodata)
             /\ ~IsClose(elev[c[1]][c[2]], nodata)
    /\ ("assemble" \in steps /\ nodata # None) =>
          \A c \in Cells(out.elev) :
             /\ ~IsSentinel(out.elev[c[1]][c[2]], nodata)
             /\ ~IsClose(out.elev[c[1]][c[2]], nodata)

\* What holds instead of C1: a nodata value that is a number never stays in elev.
NoNumericSentinelInElev ==
    ("elev" \in steps /\ nodata.t = "num") =>
        \A c \in Cells(elev) :
           /\ ~IsSentinel(elev[c[1]][c[2]], nodata)
           /\ ~IsClose(elev[c[1]][c[2]], nodata)

\* C2: the effective nodata value is the override when one is given and the
\* raster's embedded value otherwise; elev has None exactly where band1 is
\* close to that value and band1's sample everywhere else, so with neither
\* value present elev equals band1 cell for cell.
C2_NodataPrecedence ==
    LET chosen == IF nodataArg # None THEN nodataArg ELSE srcNodata
    IN  /\ "nodata" \in steps => nodata = chosen
        /\ "elev" \in steps =>
              /\ Len(elev) = Len(band1)
              /\ \A i \in 1..Len(elev) : Len(elev[i]) = Len(band1[i])
              /\ \A c \in Cells(band1) :
                    elev[c[1]][c[2]] =
                       IF chosen # None /\ IsClose(band1[c[1]][c[2]], chosen)
                       THEN None ELSE band1[c[1]][c[2]]
              /\ (nodataArg = None /\ srcNodata = None) => elev = band1

\* An override and a different embedded value: a cell close to the override
\* became None, a cell equal to the embedded value was kept.
C2_Witness ==
    /\ "elev" \in steps
    /\ nodataArg # None
    /\ srcNodata # None
    /\ nodataArg # srcNodata
    /\ \E c \in Cells(band1) :
          /\ IsClose(band1[c[1]][c[2]], nodataArg)
          /\ elev[c[1]][c[2]] = None
    /\ \E c \in Cells(band1) :
          /\ band1[c[1]][c[2]] = srcNodata
          /\ elev[c[1]][c[2]] = srcNodata

\* C3: with nx <= 0 or ny <= 0 the run fails with InvalidDimension before
\* src.read is called and before the axes are built; it never completes.
C3_InvalidDimensionBeforeRead ==
    (nx <= 0 \/ ny <= 0) =>
        /\ "read" \notin steps
        /\ "axes" \notin steps
        /\ pc # "done"
        /\ pc = "failed" => err \in {"InvalidDimension", "SourceUnreadable"}

\* C4: the destination is opened only after the read, the axes, the
\* substitution and the assembly; a run that failed on the source side left
\* it untouched; a run that completed wrote the whole document.
C4_DestinationLast ==
    /\ dest.state # "untouched" =>
          /\ {"open", "read", "bounds", "axes", "nodata", "elev", "assemble"}
                \subseteq steps
          /\ out.elev = elev
          /\ out.lons = lons
          /\ out.lats = lats
    /\ (pc = "failed" /\ err \in {"InvalidDimension", "EmptySource",
                                  "SourceUnreadable", "ValueError",
                                  "RasterioIOError"}) =>
          dest.state = "untouched"
    /\ pc = "done" =>
          /\ dest.state = "complete"
          /\ dest.doc = out
          /\ out = [bbox |-> <<bounds.left, bounds.bottom, bounds.right, bounds.top>>,
                    ncols |-> nx, nrows |-> ny, lons |-> lons, lats |-> lats,
                    elev |-> elev]

\* A completed run whose destination holds the document.
C4_Witness ==
    /\ pc = "done"
    /\ dest.state = "complete"
    /\ nx = 3
    /\ ny = 2
    /\ Len(dest.doc.elev) = 2

\* C5: a completed run with nx >= 1 and ny >= 1 wrote a document whose ncols
\* and nrows are nx and ny, with nx lons, ny lats and ny rows of nx cells.
C5_RequestedShape ==
    (pc = "done" /\ nx >= 1 /\ ny >= 1) =>
        /\ dest.doc.ncols = nx
        /\ dest.doc.nrows = ny
        /\ Len(dest.doc.lons) = nx
        /\ Len(dest.doc.lats) = ny
        /\ Len(dest.doc.elev) = ny
        /\ \A i \in 1..ny : Len(dest.doc.elev[i]) = nx

\* A raster with fewer columns and more rows than requested of it.
C5_Witness ==
    /\ pc = "done"
    /\ nx > width
    /\ ny >= 1
    /\ ny < height
    /\ Len(dest.doc.elev[1]) = nx

StrictlyIncreasing(a) == \A k \in 1..(Len(a) - 1) : RatLess(a[k], a[k + 1])
StrictlyDecreasing(a) == \A k \in 1..(Len(a) - 1) : RatLess(a[k + 1], a[k])
EvenlySpaced(a) ==
    \A k \in 1..(Len(a) - 2) : RatSub(a[k + 1], a[k]) = RatSub(a[k + 2], a[k + 1])

\* C6: with nx, ny >= 2, left < right and top > bottom, lons has nx values,
\* strictly increasing and evenly spaced from left to right exactly, and lats
\* has ny values, strictly decreasing and evenly spaced from top to bottom
\* exactly.  (Length, end points and even spacing fix each axis, so the axes
\* depend on nothing but the box and the shape.)
C6_Axes ==
    ("axes" \in steps /\ nx >= 2 /\ ny >= 2
        /\ bounds.left < bounds.right /\ bounds.top > bounds.bottom) =>
        /\ Len(lons) = nx
        /\ lons[1] = <<bounds.left, 1>>
        /\ lons[nx] = <<bounds.right, 1>>
        /\ StrictlyIncreasing(lons)
        /\ EvenlySpaced(lons)
        /\ Len(lats) = ny
        /\ lats[1] = <<bounds.top, 1>>
        /\ lats[ny] = <<bounds.bottom, 1>>
        /\ StrictlyDecreasing(lats)
        /\ EvenlySpaced(lats)

\* Three points over a box three units wide: the middle one is 1/2.
C6_Witness ==
    /\ "axes" \in steps
    /\ nx = 3
    /\ ny = 3
    /\ bounds = [left |-> -1, bottom |-> -1, right |-> 2, top |-> 2]
    /\ lons[2] = <<1, 2>>
    /\ lats[2] = <<1, 2>>

\* C8: at the raster's own shape every cell of elev whose source sample is
\* not the effective nodata value equals that sample, and every cell whose
\* source sample is the nodata value is None.
C8_NativeShapeIdentity ==
    ("elev" \in steps /\ nx = width /\ ny = height) =>
        \A c \in Cells(band) :
           elev[c[1]][c[2]] =
              IF nodata # None /\ IsSentinel(band[c[1]][c[2]], nodata)
              THEN None ELSE band[c[1]][c[2]]

\* What holds instead of C8: each cell is the float32 of its source sample,
\* or None when that float32 is close to the effective nodata value.
NativeShapeUpToTolerance ==
    ("elev" \in steps /\ nx = width /\ ny = height) =>
        \A c \in Cells(band) :
           elev[c[1]][c[2]] =
              IF nodata # None /\ IsClose(AsF32(band[c[1]][c[2]]), nodata)
              THEN None ELSE AsF32(band[c[1]][c[2]])

\* C10: the advisory is printed exactly when a CRS label is present and is
\* not EPSG:4326; the statement that prints it never fails; the document of
\* a completed run is built from the bounds, the shape, the samples and the
\* nodata values alone, whatever the label.
C10_CrsAdvisoryOnly ==
    /\ "bounds" \in steps => warned = (crs # NoCrs /\ crs # StandardCrs)
    /\ "bounds" \notin steps => ~warned
    /\ ("bounds" \in steps /\ pc = "failed") => "axes" \in steps
    /\ pc = "done" =>
          dest.doc =
             [bbox |-> <<bounds.left, bounds.bottom, bounds.right, bounds.top>>,
              ncols |-> nx, nrows |-> ny,
              lons |-> Linspace(bounds.left, bounds.right, nx),
              lats |-> Linspace(bounds.top, bounds.bottom, ny),
              elev |-> ReplaceNodata(MapF32(Resample(band, ny, nx, oracle)),
                                     IF nodataArg # None THEN nodataArg
                                     ELSE srcNodata)]

\* A completed run on a raster labelled with a projected CRS.
C10_Witness ==
    /\ pc = "done"
    /\ crs = "EPSG:32643"
    /\ warned
    /\ dest.state = "complete"

====
